---- MODULE Spec2Model ----
(***************************************************************************)
(* Model of kedro/contrib/great_expectations_transformer/                  *)
(* expectations_evaluator.py: the two catalog scanners, the                *)
(* ExpectationsSetup helper and the ExpectationsEvaluator transformer.     *)
(***************************************************************************)
EXTENDS Integers, Sequences, FiniteSets, TLC

VARIABLES
    \* ---- catalog scanners ----
    catalog,          \* config_loader.get("catalog*", ...): dataset name -> entry
    suites,           \* last value returned by get_names_and_expectations_suite
    suites_called,    \* TRUE once get_names_and_expectations_suite has returned
    stripped,         \* last value returned by remove_expectations_suite_from_catalog
    stripped_called,  \* TRUE once remove_expectations_suite_from_catalog has returned
    \* ---- ExpectationsSetup ----
    ge_marker,        \* great_expectations/great_expectations.yml is a file
    ge_datasources,   \* datasources of the saved project configuration
    data_dir_exists,  \* <cwd>/data is a directory
    data_dir,         \* children of <cwd>/data: name -> "dir" | "file"
    create_calls,     \* number of DataContext.create calls made so far
    setup_outcome,    \* "none" | "ok" | "FileNotFoundError": last ExpectationsSetup()
    \* ---- ExpectationsEvaluator ----
    break_on_failure,     \* self._break_on_failure
    run_id,               \* self._run_id
    expectations_suite,   \* self._expectations_suite, as the parts of the path
    suite_file_exists,    \* the suite file is there to be copied
    suite_name,           \* expectation_suite_name the suite file declares
    ge_asset_name,        \* what normalize_data_asset_name gives for the dataset's path
    store,                \* the data the underlying dataset holds
    op,                   \* "none" | "load" | "save": the method last entered
    pc,                   \* the step the method is about to run, or "idle"
    data,                 \* the local variable data of load / the argument of save
    io_calls,             \* calls of the underlying callable made by this call
    validation,           \* the local variable validation
    files,                \* paths of the files under great_expectations/
    written,              \* files written by this call, in order
    log,                  \* log records emitted by this call, in order
    trace,                \* steps this call has run, in order
    outcome,              \* "none" | "returned" | the exception that ended the call
    returned              \* the value the call returned

scan_vars == <<catalog, suites, suites_called, stripped, stripped_called>>

setup_vars == <<ge_marker, ge_datasources, data_dir_exists, data_dir,
                create_calls, setup_outcome>>

eval_vars == <<break_on_failure, run_id, expectations_suite, suite_file_exists,
               suite_name, ge_asset_name, store, op, pc, data, io_calls,
               validation, files, written, log, trace, outcome, returned>>

vars == <<scan_vars, setup_vars, eval_vars>>

\* The empty mapping (an empty Python dict).
EmptyDict == [x \in {} |-> x]

-----------------------------------------------------------------------------
(* Catalog scanners                                                        *)

\* Bound: number of datasets in a catalog configuration.
MaxDatasets == 2

DatasetNames == {"cars", "boats", "planes"}
EntryKeys == {"expectations_suite", "filepath"}
EntryValues == {"conf/cars.json", "data/01_raw/x.csv"}

\* Every entry of a catalog: a mapping from some keys to values.
CatalogEntries == UNION {[ks -> EntryValues] : ks \in SUBSET EntryKeys}

\* Every catalog configuration with at most MaxDatasets datasets.
Catalogs ==
    UNION {[ns -> CatalogEntries] :
              ns \in {s \in SUBSET DatasetNames : Cardinality(s) <= MaxDatasets}}

\* get_names_and_expectations_suite with the filter dropped: indexes every entry.
get_names_and_expectations_suite_nofilter(cat) ==
    [name \in DOMAIN cat |->
        IF "expectations_suite" \in DOMAIN cat[name]
        THEN cat[name]["expectations_suite"]
        ELSE "KeyError"]

\* The dict comprehension of get_names_and_expectations_suite.
get_names_and_expectations_suite(cat) ==
    [name \in {n \in DOMAIN cat : "expectations_suite" \in DOMAIN cat[n]} |->
        cat[name]["expectations_suite"]]

\* remove_expectations_suite_from_catalog that drops whole entries having the key.
remove_expectations_suite_from_catalog_dropentry(cat) ==
    [name \in {n \in DOMAIN cat : "expectations_suite" \notin DOMAIN cat[n]} |->
        cat[name]]

\* The nested dict comprehension of remove_expectations_suite_from_catalog.
remove_expectations_suite_from_catalog(cat) ==
    [name \in DOMAIN cat |->
        [key \in {k \in DOMAIN cat[name] : k /= "expectations_suite"} |->
            cat[name][key]]]

ScanInit ==
    /\ catalog \in Catalogs
    /\ suites = EmptyDict
    /\ suites_called = FALSE
    /\ stripped = EmptyDict
    /\ stripped_called = FALSE

\* The scanners are not in use.
ScanIdle ==
    /\ catalog = EmptyDict
    /\ suites = EmptyDict
    /\ suites_called = FALSE
    /\ stripped = EmptyDict
    /\ stripped_called = FALSE

\* A call of get_names_and_expectations_suite(project_context).
GetNamesAndExpectationsSuite ==
    /\ suites' = get_names_and_expectations_suite(catalog)
    /\ suites_called' = TRUE
    /\ UNCHANGED <<catalog, stripped, stripped_called>>
    /\ UNCHANGED <<setup_vars, eval_vars>>

\* A call of remove_expectations_suite_from_catalog(project_context).
RemoveExpectationsSuiteFromCatalog ==
    /\ stripped' = remove_expectations_suite_from_catalog(catalog)
    /\ stripped_called' = TRUE
    /\ UNCHANGED <<catalog, suites, suites_called>>
    /\ UNCHANGED <<setup_vars, eval_vars>>

ScanNext ==
    \/ GetNamesAndExpectationsSuite
    \/ RemoveExpectationsSuiteFromCatalog


\* C1: get_names_and_expectations_suite returns a mapping whose keys are exactly
\* the dataset names whose entry has the key "expectations_suite", each mapped
\* to that entry's "expectations_suite" value.
C1_ScannerExact ==
    suites_called =>
        /\ \A n \in DOMAIN catalog :
              (n \in DOMAIN suites) <=> (\E k \in DOMAIN catalog[n] : k = "expectations_suite")
        /\ \A n \in DOMAIN suites :
              n \in DOMAIN catalog /\ suites[n] = catalog[n].expectations_suite

\* C1 witness: the scanner has run on a catalog holding both a dataset with a
\* suite and a dataset without one.
C1_Witness ==
    /\ suites_called
    /\ \E n \in DOMAIN catalog : "expectations_suite" \in DOMAIN catalog[n]
    /\ \E n \in DOMAIN catalog : "expectations_suite" \notin DOMAIN catalog[n]

\* C2: remove_expectations_suite_from_catalog keeps every dataset name, leaves
\* no "expectations_suite" key in any entry, and keeps every other key with its
\* original value, adding none.
C2_StripPreserves ==
    stripped_called =>
        /\ DOMAIN stripped = DOMAIN catalog
        /\ \A n \in DOMAIN catalog :
              /\ "expectations_suite" \notin DOMAIN stripped[n]
              /\ DOMAIN stripped[n] \subseteq DOMAIN catalog[n]
              /\ \A k \in DOMAIN catalog[n] :
                    k /= "expectations_suite" =>
                        k \in DOMAIN stripped[n] /\ stripped[n][k] = catalog[n][k]
              /\ ("expectations_suite" \notin DOMAIN catalog[n] => stripped[n] = catalog[n])

\* C2 witness: the strip function has run on a catalog with an entry holding
\* the suite key next to another key, and an entry without the suite key.
C2_Witness ==
    /\ stripped_called
    /\ \E n \in DOMAIN catalog : DOMAIN catalog[n] = EntryKeys
    /\ \E n \in DOMAIN catalog :
          "expectations_suite" \notin DOMAIN catalog[n] /\ DOMAIN catalog[n] /= {}

-----------------------------------------------------------------------------
(* ExpectationsSetup                                                       *)

\* Bound: number of children of the data directory.
MaxChildren == 2

ChildNames == {"01_raw", "02_intermediate", "README.md"}
ChildKinds == {"dir", "file"}

\* Every content of the data directory with at most MaxChildren children.
DataDirs ==
    UNION {[cs -> ChildKinds] :
              cs \in {s \in SUBSET ChildNames : Cardinality(s) <= MaxChildren}}

\* A generator entry as create_generators builds it.
Generator(base) ==
    [class_name |-> "SubdirReaderGenerator", base_directory |-> base]

\* A datasource entry as add_datasource is asked to register it.
Datasource(generators) ==
    [class_name |-> "PandasDatasource", generators |-> generators]

\* Datasources a project that already exists may have registered.
ExistingDatasources ==
    UNION {[ns -> {Datasource(EmptyDict),
                   Datasource([default |-> Generator(<<"data">>)])}] :
              ns \in SUBSET {"data", "warehouse"}}

\* Datasources of the project DataContext.create writes.
NewProjectDatasources == EmptyDict

\* create_ge_project that creates the project without looking at the marker.
create_ge_project_always(marker, datasources, calls) ==
    [marker |-> TRUE, datasources |-> NewProjectDatasources, calls |-> calls + 1]

\* create_ge_project: DataContext.create unless the marker file is there.
create_ge_project(marker, datasources, calls) ==
    IF marker
    THEN [marker |-> marker, datasources |-> datasources, calls |-> calls]
    ELSE [marker |-> TRUE, datasources |-> NewProjectDatasources, calls |-> calls + 1]

\* create_generators that makes a generator of every child, files included.
create_generators_nofilter(children) ==
    IF DOMAIN children = {}
    THEN [g \in {"data"} |-> Generator(<<"data">>)]
    ELSE [g \in DOMAIN children |-> Generator(<<"data", g>>)]

\* create_generators: one generator per sub-directory of data, or the single
\* generator "data" when there is none.
create_generators(children) ==
    LET n_directories == {child \in DOMAIN children : children[child] = "dir"}
    IN  IF Cardinality(n_directories) = 0
        THEN [g \in {"data"} |-> Generator(<<"data">>)]
        ELSE [g \in n_directories |-> Generator(<<"data", g>>)]

\* context.add_datasource(name=..., generators=...).
add_datasource(datasources, name, generators) ==
    [n \in DOMAIN datasources \cup {name} |->
        IF n = name THEN Datasource(generators) ELSE datasources[n]]

\* setup_datasources without the datasources.clear() call.
setup_datasources_noclear(datasources, children) ==
    add_datasource(datasources, "data", create_generators(children))

\* setup_datasources: clear the datasources, register "data" and save.
setup_datasources(datasources, children) ==
    add_datasource(EmptyDict, "data", create_generators(children))

SetupInit ==
    /\ ge_marker \in BOOLEAN
    /\ ge_datasources \in (IF ge_marker THEN ExistingDatasources ELSE {EmptyDict})
    /\ data_dir_exists \in BOOLEAN
    /\ data_dir \in (IF data_dir_exists THEN DataDirs ELSE {EmptyDict})
    /\ create_calls = 0
    /\ setup_outcome = "none"

\* The setup helper is not in use.
SetupIdle ==
    /\ ge_marker = FALSE
    /\ ge_datasources = EmptyDict
    /\ data_dir_exists = FALSE
    /\ data_dir = EmptyDict
    /\ create_calls = 0
    /\ setup_outcome = "none"

\* ExpectationsSetup(): create_ge_project, then setup_datasources.  iterdir
\* on a missing data directory raises before the datasources are touched.
ExpectationsSetup ==
    LET project == create_ge_project(ge_marker, ge_datasources, create_calls)
    IN  /\ ge_marker' = project.marker
        /\ create_calls' = project.calls
        /\ IF data_dir_exists
           THEN /\ ge_datasources' = setup_datasources(project.datasources, data_dir)
                /\ setup_outcome' = "ok"
           ELSE /\ ge_datasources' = project.datasources
                /\ setup_outcome' = "FileNotFoundError"
        /\ UNCHANGED <<data_dir_exists, data_dir>>
        /\ UNCHANGED <<scan_vars, eval_vars>>

SetupNext == ExpectationsSetup


\* C7 as stated: with the marker file present, constructing ExpectationsSetup
\* creates no project and leaves the registered datasources and the saved
\* project configuration unchanged.
C7_NoOpWhenMarkerExists ==
    [][ge_marker =>
          /\ create_calls' = create_calls
          /\ ge_datasources' = ge_datasources]_vars

\* C7 amended: with the marker file present, constructing ExpectationsSetup
\* creates no project and keeps the marker; and constructing it again after a
\* construction that succeeded leaves the project unchanged (the datasources
\* are still replaced on the first of the two).
C7_NoCreateAndIdempotent ==
    [][/\ ge_marker => (create_calls' = create_calls /\ ge_marker' = ge_marker)
       /\ setup_outcome = "ok" =>
              (ge_datasources' = ge_datasources /\ create_calls' = create_calls
                 /\ ge_marker' = ge_marker /\ setup_outcome' = "ok")]_vars

\* C7 witness: ExpectationsSetup has been constructed on a project whose
\* marker file was already there.
C7_Witness ==
    /\ setup_outcome = "ok"
    /\ create_calls = 0
    /\ ge_marker

\* The immediate sub-directories of the data directory.
SubDirectories == {c \in DOMAIN data_dir : data_dir[c] = "dir"}

\* C8: after ExpectationsSetup has been constructed the project has exactly
\* one datasource, "data", with one generator per immediate sub-directory of
\* data (named after it, base directory data/<sub-directory>), a single
\* generator "data" when there is no sub-directory, and none for plain files.
C8_DatasourceMirrorsDataDir ==
    setup_outcome = "ok" =>
        /\ DOMAIN ge_datasources = {"data"}
        /\ LET generators == ge_datasources["data"].generators
           IN  /\ \A c \in SubDirectories :
                     /\ c \in DOMAIN generators
                     /\ generators[c].base_directory = <<"data", c>>
               /\ SubDirectories /= {} => DOMAIN generators = SubDirectories
               /\ SubDirectories = {} => DOMAIN generators = {"data"}
               /\ \A c \in DOMAIN data_dir :
                     data_dir[c] = "file" => c \notin DOMAIN generators

\* C8 witness: ExpectationsSetup has been constructed on a project that
\* existed before, with a data directory holding a sub-directory and a plain
\* file.
C8_Witness ==
    /\ setup_outcome = "ok"
    /\ create_calls = 0
    /\ \E c \in DOMAIN data_dir : data_dir[c] = "dir"
    /\ \E c \in DOMAIN data_dir : data_dir[c] = "file"

\* C8 witness of the other case: the data directory has no sub-directory.
C8_WitnessNoSubdir ==
    /\ setup_outcome = "ok"
    /\ SubDirectories = {}
    /\ DOMAIN data_dir /= {}

-----------------------------------------------------------------------------
(* ExpectationsEvaluator                                                   *)

\* Bound: number of expectation results in a validation result.
MaxResults == 2

ExpectationTypes == {"expect_column_values_to_not_be_null",
                     "expect_column_values_to_be_unique"}
Columns == {"age", "name"}
RunIds == {"", "run_1"}
SuiteNames == {"default", "warning"}
SuitePaths == {<<>>, <<"conf", "iris_suite.json">>}

\* The frames the pipeline moves around; ge marks the PandasDataset wrapper.
Data == {[frame |-> "df1", ge |-> FALSE], [frame |-> "df2", ge |-> FALSE]}
NoData == [frame |-> "none", ge |-> FALSE]

\* PandasDataset(data).
PandasDataset(d) == [d EXCEPT !.ge = TRUE]

\* The file path of the dataset in the kedro catalog.
kedro_dataset_path == <<"data", "01_raw", "iris.csv">>

\* Names normalize_data_asset_name may resolve the dataset's path to.
AssetNames ==
    {[datasource |-> "data", generator |-> "01_raw", generator_asset |-> "iris"],
     [datasource |-> "files", generator |-> "default", generator_asset |-> "iris.csv"]}

\* kwargs of an expectation: with a "column" entry or without one.
ExpectationKwargs == {EmptyDict} \cup {[column |-> c] : c \in Columns}

\* One entry of validation["results"].
ExpectationResults ==
    [expectation_type : ExpectationTypes, kwargs : ExpectationKwargs,
     success : BOOLEAN]

\* The result lists of at most MaxResults entries.
ResultLists == UNION {[1..n -> ExpectationResults] : n \in 0..MaxResults}

\* A validation result: success is the conjunction of its results' success.
ValidationOf(results, name) ==
    [success |-> \A i \in 1..Len(results) : results[i].success,
     results |-> results,
     meta |-> [expectation_suite_name |-> name]]

NoValidation == ValidationOf(<<>>, "none")

\* ge_data_context.root_directory, relative to the working directory.
root_directory == <<"great_expectations">>

\* pathlib's p / s for a segment s: an empty segment adds nothing.
PathDiv(p, s) == IF s = "" THEN p ELSE Append(p, s)

\* normalize_data_asset: the name the validation project resolves a path to.
normalize_data_asset(path) == ge_asset_name

\* expectations_copy_path of copy_expectations_to_great_expectations.
expectations_copy_path(normalized) ==
    PathDiv(PathDiv(PathDiv(PathDiv(root_directory, "expectations"),
        normalized.datasource), normalized.generator), normalized.generator_asset)

\* validations_location without the run identifier.
validations_location_norun(run, normalized) ==
    PathDiv(PathDiv(PathDiv(PathDiv(PathDiv(root_directory, "uncommitted"),
        "validations"), normalized.datasource), normalized.generator),
        normalized.generator_asset)

\* validations_location of save_validations.
validations_location(run, normalized) ==
    PathDiv(PathDiv(PathDiv(PathDiv(PathDiv(PathDiv(root_directory, "uncommitted"),
        "validations"), run), normalized.datasource), normalized.generator),
        normalized.generator_asset)

\* A log record.
LogRecord(by, level, text, failed) ==
    [by |-> by, level |-> level, text |-> text, failed |-> failed]

\* The dict comprehension failed_validations of raise_on_failure, over
\* results[i..]: expectation_type -> kwargs["column"] of the failed results,
\* a later result replacing an earlier one of the same type; error when a
\* failed result has no "column" in its kwargs.
RECURSIVE failed_validations(_, _, _)
failed_validations(results, i, acc) ==
    IF i > Len(results)
    THEN [error |-> FALSE, dict |-> acc]
    ELSE IF results[i].success
    THEN failed_validations(results, i + 1, acc)
    ELSE IF "column" \notin DOMAIN results[i].kwargs
    THEN [error |-> TRUE, dict |-> acc]
    ELSE failed_validations(results, i + 1,
            [t \in DOMAIN acc \cup {results[i].expectation_type} |->
                IF t = results[i].expectation_type
                THEN results[i].kwargs["column"]
                ELSE acc[t]])

\* raise_on_failure: the records it logs and the exception it raises.
raise_on_failure(strict, v) ==
    LET warned == IF ~strict /\ ~v.success
                  THEN <<LogRecord("raise_on_failure", "warning", "statistics", EmptyDict)>>
                  ELSE <<>>
        informed == IF v.success
                    THEN <<LogRecord("raise_on_failure", "info", "statistics", EmptyDict)>>
                    ELSE <<>>
        failed == failed_validations(v.results, 1, EmptyDict)
    IN  IF strict /\ ~v.success
        THEN IF failed.error
             THEN [log |-> warned \o informed, raised |-> "KeyError"]
             ELSE [log |-> warned \o informed \o
                             <<LogRecord("raise_on_failure", "error", "failed", failed.dict)>>,
                   raised |-> "FailedValidationException"]
        ELSE [log |-> warned \o informed, raised |-> "none"]

\* The statements of load in an order that applies the policy before saving.
load_steps_policy_first ==
    <<"load", "copy", "validate", "raise_on_failure", "save_validations">>

\* The statements of load, in order.
load_steps == <<"load", "copy", "validate", "save_validations", "raise_on_failure">>

\* The statements of save, in order.
save_steps == <<"save", "copy", "validate", "save_validations", "raise_on_failure">>

\* load returning the PandasDataset it validated.
load_result_wrapped(d, expectations_data) == expectations_data

\* The value load returns.
load_result(d, expectations_data) == d

Steps == IF op = "load" THEN load_steps ELSE save_steps

\* The position of the step pc in the running method.
Position == CHOOSE i \in 1..Len(Steps) : Steps[i] = pc

\* The step is over without an exception: go on to the next statement, or
\* return when it was the last one.
Continue ==
    IF Position = Len(Steps)
    THEN /\ pc' = "idle"
         /\ outcome' = "returned"
         /\ returned' = IF op = "load"
                        THEN load_result(data, PandasDataset(data))
                        ELSE NoData
    ELSE /\ pc' = Steps[Position + 1]
         /\ UNCHANGED <<outcome, returned>>

\* The step raised: the exception ends the call.
Raise(exception) ==
    /\ pc' = "idle"
    /\ outcome' = exception
    /\ UNCHANGED returned

config_vars == <<break_on_failure, run_id, expectations_suite, suite_file_exists,
                 suite_name, ge_asset_name>>

EvalInit ==
    /\ break_on_failure \in BOOLEAN
    /\ run_id \in RunIds
    /\ expectations_suite \in SuitePaths
    /\ suite_file_exists \in (IF expectations_suite = <<>> THEN {FALSE} ELSE BOOLEAN)
    /\ suite_name \in SuiteNames
    /\ ge_asset_name \in AssetNames
    /\ store \in Data
    /\ op = "none"
    /\ pc = "idle"
    /\ data = NoData
    /\ io_calls = 0
    /\ validation = NoValidation
    /\ files = {}
    /\ written = <<>>
    /\ log = <<>>
    /\ trace = <<>>
    /\ outcome = "none"
    /\ returned = NoData

\* The transformer is not in use.
EvalIdle ==
    /\ break_on_failure = TRUE
    /\ run_id = ""
    /\ expectations_suite = <<>>
    /\ suite_file_exists = FALSE
    /\ suite_name = "none"
    /\ ge_asset_name = [datasource |-> "", generator |-> "", generator_asset |-> ""]
    /\ store = NoData
    /\ op = "none"
    /\ pc = "idle"
    /\ data = NoData
    /\ io_calls = 0
    /\ validation = NoValidation
    /\ files = {}
    /\ written = <<>>
    /\ log = <<>>
    /\ trace = <<>>
    /\ outcome = "none"
    /\ returned = NoData

\* Entering a method: its locals are fresh.
Enter(method, steps, d) ==
    /\ pc = "idle"
    /\ op' = method
    /\ pc' = steps[1]
    /\ data' = d
    /\ io_calls' = 0
    /\ validation' = NoValidation
    /\ written' = <<>>
    /\ log' = <<>>
    /\ trace' = <<>>
    /\ outcome' = "none"
    /\ returned' = NoData
    /\ UNCHANGED <<config_vars, store, files>>
    /\ UNCHANGED <<scan_vars, setup_vars>>

\* load(data_set_name, load) is called.
CallLoad == Enter("load", load_steps, NoData)

\* save(data_set_name, save, data) is called.
CallSave == \E d \in Data : Enter("save", save_steps, d)

\* data = load()
UnderlyingLoad ==
    /\ pc = "load"
    /\ data' = store
    /\ io_calls' = io_calls + 1
    /\ trace' = Append(trace, "load")
    /\ Continue
    /\ UNCHANGED <<config_vars, store, op, validation, files, written, log>>
    /\ UNCHANGED <<scan_vars, setup_vars>>

\* save(data)
UnderlyingSave ==
    /\ pc = "save"
    /\ store' = data
    /\ io_calls' = io_calls + 1
    /\ trace' = Append(trace, "save")
    /\ Continue
    /\ UNCHANGED <<config_vars, op, data, validation, files, written, log>>
    /\ UNCHANGED <<scan_vars, setup_vars>>

\* self.copy_expectations_to_great_expectations(self.expectations_suite):
\* parts[-1] of an empty path raises IndexError, shutil.copy of a missing
\* file raises FileNotFoundError.
CopyExpectations ==
    /\ pc = "copy"
    /\ trace' = Append(trace, "copy")
    /\ IF expectations_suite = <<>>
       THEN Raise("IndexError") /\ UNCHANGED <<files, written>>
       ELSE IF ~suite_file_exists
       THEN Raise("FileNotFoundError") /\ UNCHANGED <<files, written>>
       ELSE LET normalized_data_asset == normalize_data_asset(kedro_dataset_path)
                expectations_suite_filename ==
                    expectations_suite[Len(expectations_suite)]
                target == PathDiv(expectations_copy_path(normalized_data_asset),
                                  expectations_suite_filename)
            IN  /\ files' = files \cup {target}
                /\ written' = Append(written,
                                 [path |-> target, content |-> "expectations_suite"])
                /\ Continue
    /\ UNCHANGED <<config_vars, store, op, data, io_calls, validation, log>>
    /\ UNCHANGED <<scan_vars, setup_vars>>

\* The "validating: ..." record, then expectations_data.validate(...): the
\* validation library decides the result.
Validate ==
    /\ pc = "validate"
    /\ trace' = Append(trace, "validate")
    /\ log' = Append(log, LogRecord(op, "info", "validating", EmptyDict))
    /\ \E results \in ResultLists : validation' = ValidationOf(results, suite_name)
    /\ Continue
    /\ UNCHANGED <<config_vars, store, op, data, io_calls, files, written>>
    /\ UNCHANGED <<scan_vars, setup_vars>>

\* self.save_validations(validation)
SaveValidations ==
    /\ pc = "save_validations"
    /\ trace' = Append(trace, "save_validations")
    /\ LET normalized_data_asset == normalize_data_asset(kedro_dataset_path)
           validations_file_name == validation.meta.expectation_suite_name \o ".json"
           target == PathDiv(validations_location(run_id, normalized_data_asset),
                             validations_file_name)
       IN  /\ files' = files \cup {target}
           /\ written' = Append(written, [path |-> target, content |-> "validation"])
    /\ Continue
    /\ UNCHANGED <<config_vars, store, op, data, io_calls, validation, log>>
    /\ UNCHANGED <<scan_vars, setup_vars>>

\* self.raise_on_failure(validation)
RaiseOnFailure ==
    /\ pc = "raise_on_failure"
    /\ trace' = Append(trace, "raise_on_failure")
    /\ LET policy == raise_on_failure(break_on_failure, validation)
       IN  /\ log' = log \o policy.log
           /\ IF policy.raised = "none" THEN Continue ELSE Raise(policy.raised)
    /\ UNCHANGED <<config_vars, store, op, data, io_calls, validation, files, written>>
    /\ UNCHANGED <<scan_vars, setup_vars>>

EvalNext ==
    \/ CallLoad
    \/ CallSave
    \/ UnderlyingLoad
    \/ UnderlyingSave
    \/ CopyExpectations
    \/ Validate
    \/ SaveValidations
    \/ RaiseOnFailure

-----------------------------------------------------------------------------
(* Properties of the transformer                                           *)

\* The steps the call has run.
Ran(step) == \E i \in 1..Len(trace) : trace[i] = step

\* The call is over and raise_on_failure was part of it.
PolicyApplied == pc = "idle" /\ Ran("raise_on_failure")

\* The records raise_on_failure emitted in this call.
PolicyLog == SelectSeq(log, LAMBDA r : r.by = "raise_on_failure")

\* The failed entries of the validation result.
FailedResults == {i \in 1..Len(validation.results) : ~validation.results[i].success}

\* C3: on a failing validation result, strict mode (break_on_failure = true)
\* raises FailedValidationException; non-strict mode raises nothing, emits a
\* log message and the load/save completes normally.
C3_StrictRaisesLenientLogs ==
    (PolicyApplied /\ ~validation.success) =>
        IF break_on_failure
        THEN outcome = "FailedValidationException"
        ELSE outcome = "returned" /\ Len(PolicyLog) >= 1

\* The five steps of a call, in the order the transformer performs them.
ExpectedSteps ==
    <<op, "copy", "validate", "save_validations", "raise_on_failure">>

\* C4: every load and save runs (1) the underlying callable, (2) the copy of
\* the suite file, (3) the validation, (4) the write of the result file,
\* (5) the failure policy, in this order; the result file is written before a
\* strict-mode failure is raised.
C4_StepsInOrder ==
    /\ Len(trace) <= 5
    /\ \A i \in 1..Len(trace) : trace[i] = ExpectedSteps[i]
    /\ outcome \in {"returned", "FailedValidationException"} => Len(trace) = 5
    /\ Ran("validate") =>
          \E i \in 1..Len(written) : written[i].content = "expectations_suite"
    /\ Ran("raise_on_failure") =>
          \E i \in 1..Len(written) : written[i].content = "validation"
    /\ \A i, j \in 1..Len(written) :
          (written[i].content = "expectations_suite" /\ written[j].content = "validation")
              => i < j

\* C4 witness: a strict-mode save ended in FailedValidationException after
\* all five steps.
C4_Witness ==
    /\ op = "save"
    /\ outcome = "FailedValidationException"
    /\ Len(trace) = 5
    /\ Len(written) = 2

\* C5: in strict mode, every failing validation result ends the call with
\* FailedValidationException and no other exception, and the failure report
\* lists the expectation type and the column of every failed expectation.
C5_StrictRaisesAndListsAll ==
    (PolicyApplied /\ break_on_failure /\ ~validation.success) =>
        /\ outcome = "FailedValidationException"
        /\ \E k \in 1..Len(PolicyLog) :
              /\ PolicyLog[k].level = "error"
              /\ \A i \in FailedResults :
                    LET r == validation.results[i]
                    IN  /\ "column" \in DOMAIN r.kwargs
                        /\ r.expectation_type \in DOMAIN PolicyLog[k].failed
                        /\ PolicyLog[k].failed[r.expectation_type] = r.kwargs.column

\* A path written as a template: empty components name no directory.
NonEmptyPart(part) == part /= ""
TemplatePath(parts) == SelectSeq(parts, NonEmptyPart)

\* C6: save_validations writes the result to
\* <root>/uncommitted/validations/<run_id>/<datasource>/<generator>/
\* <generator_asset>/<suite_name>.json, the suite name being the one in the
\* result's meta, and the suite copy of the same call goes under
\* <root>/expectations/<datasource>/<generator>/<generator_asset>/.
C6_ResultAndCopyPaths ==
    /\ (Ran("save_validations") /\ pc /= "save_validations" /\ Ran("validate")) =>
          \E i \in 1..Len(written) : written[i].content = "validation"
    /\ \A i \in 1..Len(written) :
          /\ written[i].path \in files
          /\ written[i].content = "validation" =>
                written[i].path =
                    TemplatePath(<<"great_expectations", "uncommitted", "validations",
                                   run_id, ge_asset_name.datasource,
                                   ge_asset_name.generator,
                                   ge_asset_name.generator_asset,
                                   validation.meta.expectation_suite_name \o ".json">>)
          /\ written[i].content = "expectations_suite" =>
                /\ Len(written[i].path) >= 1
                /\ SubSeq(written[i].path, 1, Len(written[i].path) - 1) =
                      TemplatePath(<<"great_expectations", "expectations",
                                     ge_asset_name.datasource, ge_asset_name.generator,
                                     ge_asset_name.generator_asset>>)

\* C6 witness: a call has written the suite copy and the result file, under a
\* run identifier that is not empty.
C6_Witness ==
    /\ Len(written) = 2
    /\ run_id /= ""
    /\ pc = "idle"

\* C6 witness of the other case: the same with the empty run identifier.
C6_WitnessEmptyRun ==
    /\ Len(written) = 2
    /\ run_id = ""
    /\ pc = "idle"

\* The level raise_on_failure logs at for a mode and a result.
ExpectedLevel ==
    IF validation.success THEN "info"
    ELSE IF break_on_failure THEN "error" ELSE "warning"

\* C9: every call of raise_on_failure emits exactly one log record, at level
\* info when success is true, warning when success is false and the mode is
\* not strict, error when success is false and the mode is strict; a result
\* with success = true never raises.
C9_OneRecordPerCall ==
    PolicyApplied =>
        /\ Len(PolicyLog) = 1
        /\ PolicyLog[1].level = ExpectedLevel
        /\ validation.success => outcome = "returned"

\* C10: load calls the underlying load once and returns exactly what it
\* produced; save calls the underlying save once with exactly the data it was
\* given, before any validation, and a strict-mode failure leaves it saved.
C10_TransparentToData ==
    /\ (Ran("load") \/ Ran("save")) => io_calls = 1
    /\ (pc = "idle" /\ op /= "none") => io_calls = 1
    /\ (op = "load" /\ outcome = "returned") =>
          (returned = store /\ returned \in Data)
    /\ (op = "save" /\ Ran("save")) => (store = data /\ store \in Data)
    /\ Ran("validate") => (trace[1] = op /\ io_calls = 1)
    /\ (op = "save" /\ outcome = "FailedValidationException") => store = data

\* C10 witness: a strict-mode save failed its validation with the data saved.
C10_Witness ==
    /\ op = "save"
    /\ outcome = "FailedValidationException"
    /\ store = data

\* C10 witness of the load case: a load returned the stored frame.
C10_WitnessLoad ==
    /\ op = "load"
    /\ outcome = "returned"
    /\ returned = store

-----------------------------------------------------------------------------
(* Specifications                                                          *)

\* The scanners over every catalog; nothing else is in use.
InitScan == ScanInit /\ SetupIdle /\ EvalIdle

SpecScan == InitScan /\ [][ScanNext]_vars

\* The setup helper over every project and data directory.
InitSetup == SetupInit /\ ScanIdle /\ EvalIdle

SpecSetup == InitSetup /\ [][SetupNext]_vars

\* The transformer over every construction.
InitEval == EvalInit /\ ScanIdle /\ SetupIdle

SpecEval == InitEval /\ [][EvalNext]_vars
====
